---- MODULE Spec2Model ----
(***************************************************************************)
(* Model of the Dungeons&Diagram solver of src/ts/main.ts: the grid        *)
(* helpers, the validators, the combination generator and the recursive    *)
(* backtracking search dfs, unrolled into an explicit call stack.          *)
(***************************************************************************)
EXTENDS Integers, Sequences, FiniteSets, TLC

\* ------------------------------------------------------------------------
\* Program constants (src/ts/main.ts:16-26)
\* ------------------------------------------------------------------------
EMPTY_SPACE == 0
TREASURE == 1
MONSTER == 2
WALL == 3
RAW_SIDE_LENGTH == 8
SIDE_LENGTH == 10

\* Bound of the input family: at most this many wall tiles of the base map
\* are opened (made Empty) in an input.
MaxRemoved == 2

Coord(a, b) == [x |-> a, y |-> b]

Interior == 1..(SIDE_LENGTH - 2)

\* ------------------------------------------------------------------------
\* Grid model
\* ------------------------------------------------------------------------
\* augmentRawDiagram: the 8x8 map padded with a Wall border.
augmentRawDiagram(raw_diagram) ==
    [x \in 0..(SIDE_LENGTH - 1) |->
        [y \in 0..(SIDE_LENGTH - 1) |->
            IF x \in Interior /\ y \in Interior
            THEN raw_diagram[x][y]
            ELSE WALL]]

getHashId(x, y) == x * 100 + y

isTilePlacable_OffByOne(row_i, column_i, cur_row, cur_column, row_p, column_p) ==
    IF ~(row_i \in DOMAIN cur_row /\ row_i \in DOMAIN row_p /\
         column_i \in DOMAIN cur_column /\ column_i \in DOMAIN column_p)
    THEN FALSE
    ELSE cur_row[row_i] <= row_p[row_i] /\
         cur_column[column_i] <= column_p[column_i]

isTilePlacable(row_i, column_i, cur_row, cur_column, row_p, column_p) ==
    IF ~(row_i \in DOMAIN cur_row /\ row_i \in DOMAIN row_p /\
         column_i \in DOMAIN cur_column /\ column_i \in DOMAIN column_p)
    THEN FALSE
    ELSE cur_row[row_i] + 1 <= row_p[row_i] /\
         cur_column[column_i] + 1 <= column_p[column_i]

isSatisfiedProjections_RowsOnly(cur_row, cur_column, row_p, column_p) ==
    /\ DOMAIN cur_row = DOMAIN row_p
    /\ DOMAIN cur_column = DOMAIN column_p
    /\ \A i \in DOMAIN cur_row : cur_row[i] = row_p[i]

isSatisfiedProjections(cur_row, cur_column, row_p, column_p) ==
    /\ DOMAIN cur_row = DOMAIN row_p
    /\ DOMAIN cur_column = DOMAIN column_p
    /\ \A i \in DOMAIN cur_row : cur_row[i] = row_p[i]
    /\ \A i \in DOMAIN cur_column : cur_column[i] = column_p[i]

get4DirectionCoords(x, y) ==
    << Coord(x, y - 1), Coord(x + 1, y), Coord(x, y + 1), Coord(x - 1, y) >>

getTRoomLTCoords(x, y) ==
    << Coord(x - 2, y - 2), Coord(x - 1, y - 2), Coord(x, y - 2),
       Coord(x - 2, y - 1), Coord(x - 1, y - 1), Coord(x, y - 1),
       Coord(x - 2, y), Coord(x - 1, y), Coord(x, y) >>

getTRoomTileCoords(x, y) ==
    << Coord(x, y), Coord(x + 1, y), Coord(x + 2, y),
       Coord(x, y + 1), Coord(x + 1, y + 1), Coord(x + 2, y + 1),
       Coord(x, y + 2), Coord(x + 1, y + 2), Coord(x + 2, y + 2) >>

getTRoomOuterTileCoords(x, y) ==
    << Coord(x, y - 1), Coord(x + 1, y - 1), Coord(x + 2, y - 1),
       Coord(x + 3, y), Coord(x + 3, y + 1), Coord(x + 3, y + 2),
       Coord(x, y + 3), Coord(x + 1, y + 3), Coord(x + 2, y + 3),
       Coord(x - 1, y), Coord(x - 1, y + 1), Coord(x - 1, y + 2) >>

get4TilesSpaces(x, y) ==
    << << Coord(x - 1, y - 1), Coord(x, y - 1), Coord(x - 1, y) >>,
       << Coord(x, y - 1), Coord(x + 1, y - 1), Coord(x + 1, y) >>,
       << Coord(x + 1, y), Coord(x + 1, y + 1), Coord(x, y + 1) >>,
       << Coord(x, y + 1), Coord(x - 1, y + 1), Coord(x - 1, y) >> >>

isContainedByTRoom(x, y, lt_coords) ==
    \E k \in 1..Len(lt_coords) :
        /\ x >= lt_coords[k].x /\ x < lt_coords[k].x + 3
        /\ y >= lt_coords[k].y /\ y < lt_coords[k].y + 3

isTRoomLTCoordAvailable_UpToSix(x, y) ==
    x >= 1 /\ x < SIDE_LENGTH - 3 /\ y >= 1 /\ y < SIDE_LENGTH - 3

isTRoomLTCoordAvailable_UpToEight(x, y) ==
    x >= 1 /\ x < SIDE_LENGTH - 1 /\ y >= 1 /\ y < SIDE_LENGTH - 1

isTRoomLTCoordAvailable(x, y) ==
    x >= 1 /\ x < SIDE_LENGTH - 2 /\ y >= 1 /\ y < SIDE_LENGTH - 2

\* Number of entries of the coordinate list seq whose tile has type t.
CountTiles(seq, d, t) ==
    Cardinality({k \in 1..Len(seq) : d[seq[k].x][seq[k].y] = t})

isTRoomTilesAvailable(x, y, d) ==
    /\ CountTiles(getTRoomTileCoords(x, y), d, EMPTY_SPACE) = 8
    /\ CountTiles(getTRoomTileCoords(x, y), d, TREASURE) = 1

isTRoomWallsAvailable_AtMostEleven(x, y, d) ==
    CountTiles(getTRoomOuterTileCoords(x, y), d, WALL) <= 11

isTRoomWallsAvailable_TwoOpenings(x, y, d) ==
    CountTiles(getTRoomOuterTileCoords(x, y), d, WALL) >= 10

isTRoomWallsAvailable(x, y, d) ==
    CountTiles(getTRoomOuterTileCoords(x, y), d, WALL) = 11

isDeadEnds(x, y, d) ==
    CountTiles(get4DirectionCoords(x, y), d, WALL) = 3

\* ------------------------------------------------------------------------
\* Connectivity checker
\* ------------------------------------------------------------------------
\* One iteration of the while loop of bfs in checkEmptySpacesConnectivity
\* (lines 359-380) on the queue and the coloured tiles.  color_set is
\* modelled by its key set: the stored sign is never read, only `in` is used.
bfsEmptyStep(st, d) ==
    LET head == Head(st.queue)
        hash_id == getHashId(head.x, head.y)
    IN  IF hash_id \in st.color_set
        THEN [queue |-> Tail(st.queue), color_set |-> st.color_set]
        ELSE LET cs == st.color_set \cup {hash_id}
                 push(c) == d[c.x][c.y] = EMPTY_SPACE /\
                            getHashId(c.x, c.y) \notin cs
             IN  [queue |-> Tail(st.queue) \o
                              SelectSeq(get4DirectionCoords(head.x, head.y), push),
                  color_set |-> cs]

\* The while loop: iterations of bfsEmptyStep until the queue is empty.  A
\* call with n runs at most 2^n iterations; every interior tile is coloured
\* once and pushes at most 4 tiles, so the loop ends within 2^9 iterations.
RECURSIVE bfsEmptyLoop(_, _, _)
bfsEmptyLoop(n, st, d) ==
    IF st.queue = << >> THEN st
    ELSE IF n = 0 THEN bfsEmptyStep(st, d)
    ELSE bfsEmptyLoop(n - 1, bfsEmptyLoop(n - 1, st, d), d)

bfsEmpty(queue, color_set, d) ==
    bfsEmptyLoop(9, [queue |-> queue, color_set |-> color_set], d).color_set

scanEmptyTile_TwoColours(x, y, st, d) ==
    IF st.returned \/ d[x][y] # EMPTY_SPACE THEN st
    ELSE IF getHashId(x, y) \in st.color_set THEN st
    ELSE IF st.sign_count > 1 THEN [st EXCEPT !.returned = TRUE]
    ELSE [returned |-> FALSE,
          color_set |-> bfsEmpty(<< Coord(x, y) >>, st.color_set, d),
          sign_count |-> st.sign_count + 1]

\* The body of the x/y loops of checkEmptySpacesConnectivity (lines 384-402)
\* for the tile (x, y); returned records that `return false` was taken.
scanEmptyTile(x, y, st, d) ==
    IF st.returned \/ d[x][y] # EMPTY_SPACE THEN st
    ELSE IF getHashId(x, y) \in st.color_set
    THEN (IF st.sign_count <= 1 THEN st ELSE [st EXCEPT !.returned = TRUE])
    ELSE IF st.sign_count # 0 THEN [st EXCEPT !.returned = TRUE]
    ELSE [returned |-> FALSE,
          color_set |-> bfsEmpty(<< Coord(x, y) >>, st.color_set, d),
          sign_count |-> st.sign_count + 1]

\* The inner loop over y (line 383) and the outer loop over x (line 382).
RECURSIVE scanEmptyRow(_, _, _, _)
scanEmptyRow(x, y, st, d) ==
    IF st.returned \/ y >= SIDE_LENGTH - 1 THEN st
    ELSE scanEmptyRow(x, y + 1, scanEmptyTile(x, y, st, d), d)

RECURSIVE scanEmpty(_, _, _)
scanEmpty(x, st, d) ==
    IF st.returned \/ x >= SIDE_LENGTH - 1 THEN st
    ELSE scanEmpty(x + 1, scanEmptyRow(x, 1, st, d), d)

checkEmptySpacesConnectivity_Off(d) == TRUE

checkEmptySpacesConnectivity(d) ==
    ~scanEmpty(1, [returned |-> FALSE, color_set |-> {}, sign_count |-> 0], d).returned

\* One iteration of the while loop of bfs in
\* checkTreasuresAndMonstersConnectivity (lines 416-437).
bfsNonWallStep(st, d) ==
    LET head == Head(st.queue)
        hash_id == getHashId(head.x, head.y)
    IN  IF hash_id \in st.color_set
        THEN [queue |-> Tail(st.queue), color_set |-> st.color_set]
        ELSE LET cs == st.color_set \cup {hash_id}
                 push(c) == d[c.x][c.y] # WALL /\
                            getHashId(c.x, c.y) \notin cs
             IN  [queue |-> Tail(st.queue) \o
                              SelectSeq(get4DirectionCoords(head.x, head.y), push),
                  color_set |-> cs]

RECURSIVE bfsNonWallLoop(_, _, _)
bfsNonWallLoop(n, st, d) ==
    IF st.queue = << >> THEN st
    ELSE IF n = 0 THEN bfsNonWallStep(st, d)
    ELSE bfsNonWallLoop(n - 1, bfsNonWallLoop(n - 1, st, d), d)

bfsNonWall(queue, color_set, d) ==
    bfsNonWallLoop(9, [queue |-> queue, color_set |-> color_set], d).color_set

RECURSIVE scanFixed_FirstOnly(_, _, _, _, _)
scanFixed_FirstOnly(k, coords, color_set, sign_count, d) ==
    IF k > Len(coords) THEN TRUE
    ELSE LET x == coords[k].x
             y == coords[k].y
         IN  IF d[x][y] # WALL
             THEN IF getHashId(x, y) \in color_set
                  THEN scanFixed_FirstOnly(k + 1, coords, color_set, sign_count, d)
                  ELSE IF sign_count # 0 THEN TRUE
                  ELSE scanFixed_FirstOnly(k + 1, coords,
                                 bfsNonWall(<< Coord(x, y) >>, color_set, d),
                                 sign_count + 1, d)
             ELSE scanFixed_FirstOnly(k + 1, coords, color_set, sign_count, d)

RECURSIVE scanFixed(_, _, _, _, _)
scanFixed(k, coords, color_set, sign_count, d) ==
    IF k > Len(coords) THEN TRUE
    ELSE LET x == coords[k].x
             y == coords[k].y
         IN  IF d[x][y] # WALL
             THEN IF getHashId(x, y) \in color_set
                  THEN (IF sign_count <= 1
                        THEN scanFixed(k + 1, coords, color_set, sign_count, d)
                        ELSE FALSE)
                  ELSE IF sign_count # 0 THEN FALSE
                  ELSE scanFixed(k + 1, coords,
                                 bfsNonWall(<< Coord(x, y) >>, color_set, d),
                                 sign_count + 1, d)
             ELSE scanFixed(k + 1, coords, color_set, sign_count, d)

checkTreasuresAndMonstersConnectivity_Off(t_coords, m_coords, d) == TRUE

checkTreasuresAndMonstersConnectivity(t_coords, m_coords, d) ==
    scanFixed(1, t_coords \o m_coords, {}, 0, d)

\* ------------------------------------------------------------------------
\* Room and dead-end validator
\* ------------------------------------------------------------------------
checkMonsters(m_coords, d) ==
    \A k \in 1..Len(m_coords) :
        ~(d[m_coords[k].x][m_coords[k].y] = MONSTER /\
          ~isDeadEnds(m_coords[k].x, m_coords[k].y, d))

\* The candidate scan of checkTreasureRooms for one treasure: the index of
\* the first satisfying top-left candidate, 0 when there is none.
RECURSIVE firstTRoom(_, _, _)
firstTRoom(r, lt_coords, d) ==
    IF r > Len(lt_coords) THEN 0
    ELSE IF ~isTRoomLTCoordAvailable(lt_coords[r].x, lt_coords[r].y)
         THEN firstTRoom(r + 1, lt_coords, d)
    ELSE IF ~isTRoomTilesAvailable(lt_coords[r].x, lt_coords[r].y, d)
         THEN firstTRoom(r + 1, lt_coords, d)
    ELSE IF ~isTRoomWallsAvailable(lt_coords[r].x, lt_coords[r].y, d)
         THEN firstTRoom(r + 1, lt_coords, d)
    ELSE r

\* checkTreasureRooms returns the pair [flag, room top-left list].
RECURSIVE scanTreasureRooms(_, _, _, _)
scanTreasureRooms(k, t_coords, rooms, d) ==
    IF k > Len(t_coords) THEN << TRUE, rooms >>
    ELSE LET x == t_coords[k].x
             y == t_coords[k].y
         IN  IF d[x][y] = TREASURE
             THEN LET lt_coords == getTRoomLTCoords(x, y)
                      r == firstTRoom(1, lt_coords, d)
                  IN  IF r = 0 THEN << FALSE, << >> >>
                      ELSE scanTreasureRooms(k + 1, t_coords,
                                             Append(rooms, lt_coords[r]), d)
             ELSE scanTreasureRooms(k + 1, t_coords, rooms, d)

checkTreasureRooms(t_coords, d) == scanTreasureRooms(1, t_coords, << >>, d)

\* JavaScript truthiness of an array value (lines 854, 881 use the returned
\* pair itself as a condition): every array object, even an empty one, is
\* truthy.
ArrayToBoolean(a) == Len(a) >= 0

\* ------------------------------------------------------------------------
\* Final validation
\* ------------------------------------------------------------------------
checkMonstersAndDeadEnds_MonstersOnly(m_coords, d) ==
    \A k \in 1..Len(m_coords) : isDeadEnds(m_coords[k].x, m_coords[k].y, d)

checkMonstersAndDeadEnds(m_coords, d) ==
    /\ \A k \in 1..Len(m_coords) : isDeadEnds(m_coords[k].x, m_coords[k].y, d)
    /\ \A x \in Interior : \A y \in Interior :
          ~(d[x][y] = EMPTY_SPACE /\ isDeadEnds(x, y, d))

\* Sum of the 0/1 marks of one corner triple (the inner map/reduce).
openCount(space, rooms, d) ==
    Cardinality({k \in 1..Len(space) :
        d[space[k].x][space[k].y] = EMPTY_SPACE /\
        ~isContainedByTRoom(space[k].x, space[k].y, rooms)})

checkHallways_Off(rooms, d) == TRUE

checkHallways(rooms, d) ==
    \A x \in Interior : \A y \in Interior :
        (d[x][y] = EMPTY_SPACE /\ ~isContainedByTRoom(x, y, rooms)) =>
            ~(Cardinality({s \in 1..4 :
                  openCount(get4TilesSpaces(x, y)[s], rooms, d) >= 3}) > 0)

isSolved_NoHallways(t_coords, m_coords, d) ==
    IF ~checkEmptySpacesConnectivity(d) THEN FALSE
    ELSE LET tr == checkTreasureRooms(t_coords, d)
         IN  IF ~tr[1] THEN FALSE
             ELSE IF ~checkMonstersAndDeadEnds(m_coords, d) THEN FALSE
             ELSE TRUE

isSolved(t_coords, m_coords, d) ==
    IF ~checkEmptySpacesConnectivity(d) THEN FALSE
    ELSE LET tr == checkTreasureRooms(t_coords, d)
         IN  IF ~tr[1] THEN FALSE
             ELSE IF ~checkMonstersAndDeadEnds(m_coords, d) THEN FALSE
             ELSE IF ~checkHallways(tr[2], d) THEN FALSE
             ELSE TRUE

\* ------------------------------------------------------------------------
\* Combination generator
\* ------------------------------------------------------------------------
RECURSIVE recursiveSelect_PruneEarly(_, _, _, _)
recursiveSelect_PruneEarly(step, cur_combination, m, n) ==
    IF Len(cur_combination) = m THEN << cur_combination >>
    ELSE IF step >= n THEN << >>
    ELSE recursiveSelect_PruneEarly(step + 1, Append(cur_combination, step), m, n) \o
         (IF Len(cur_combination) + (n - 1 - step) > m
          THEN recursiveSelect_PruneEarly(step + 1, cur_combination, m, n)
          ELSE << >>)

RECURSIVE recursiveSelect_SkipFirst(_, _, _, _)
recursiveSelect_SkipFirst(step, cur_combination, m, n) ==
    IF Len(cur_combination) = m THEN << cur_combination >>
    ELSE IF step >= n THEN << >>
    ELSE (IF Len(cur_combination) + (n - 1 - step) >= m
          THEN recursiveSelect_SkipFirst(step + 1, cur_combination, m, n)
          ELSE << >>) \o
         recursiveSelect_SkipFirst(step + 1, Append(cur_combination, step), m, n)

RECURSIVE recursiveSelect(_, _, _, _)
recursiveSelect(step, cur_combination, m, n) ==
    IF Len(cur_combination) = m THEN << cur_combination >>
    ELSE IF step >= n THEN << >>
    ELSE recursiveSelect(step + 1, Append(cur_combination, step), m, n) \o
         (IF Len(cur_combination) + (n - 1 - step) >= m
          THEN recursiveSelect(step + 1, cur_combination, m, n)
          ELSE << >>)

getCombinations(m, n) ==
    IF m > n THEN << >> ELSE recursiveSelect(0, << >>, m, n)

\* getTreasureAndMonsterCoords: interior coordinates of type t in scan
\* order, by the inner loop over y (line 917) and the outer loop over x
\* (line 916).
RECURSIVE scanCoordsRow(_, _, _, _)
scanCoordsRow(x, y, t, d) ==
    IF y >= SIDE_LENGTH - 1 THEN << >>
    ELSE (IF d[x][y] = t THEN << Coord(x, y) >> ELSE << >>) \o
         scanCoordsRow(x, y + 1, t, d)

RECURSIVE scanCoords(_, _, _)
scanCoords(x, t, d) ==
    IF x >= SIDE_LENGTH - 1 THEN << >>
    ELSE scanCoordsRow(x, 1, t, d) \o scanCoords(x + 1, t, d)

getTreasureAndMonsterCoords(d) ==
    << scanCoords(1, TREASURE, d), scanCoords(1, MONSTER, d) >>

\* ------------------------------------------------------------------------
\* Inputs
\* ------------------------------------------------------------------------
\* A solved 8x8 map (rows and columns 1..8): a treasure room in the top-left
\* corner opening at (2,4), two monsters in dead ends, and a hallway loop
\* around (5,6).
BaseMap ==
    << << 0, 0, 0, 3, 3, 3, 3, 3 >>,
       << 0, 1, 0, 0, 0, 0, 2, 3 >>,
       << 0, 0, 0, 3, 0, 3, 3, 3 >>,
       << 3, 3, 3, 3, 0, 0, 0, 3 >>,
       << 3, 3, 3, 3, 0, 3, 0, 3 >>,
       << 3, 2, 0, 0, 0, 0, 0, 3 >>,
       << 3, 3, 3, 3, 3, 3, 3, 3 >>,
       << 3, 3, 3, 3, 3, 3, 3, 3 >> >>

\* Wall tiles of BaseMap that an input may open: room-ring tiles, monster
\* neighbours, hallway neighbours and isolated tiles.
Openable ==
    { Coord(4, 2), Coord(1, 4), Coord(1, 7), Coord(7, 2),
      Coord(4, 8), Coord(7, 6), Coord(7, 8), Coord(1, 5), Coord(3, 6) }

\* The input map: BaseMap with the tiles of opened made Empty.
RawDiagram(opened) ==
    [x \in Interior |-> [y \in Interior |->
        IF Coord(x, y) \in opened THEN EMPTY_SPACE ELSE BaseMap[x][y]]]

\* The projections (indices 0..7) asking for one wall on each tile of walled.
RowProjectionOf(walled) ==
    [i \in 0..(RAW_SIDE_LENGTH - 1) |-> Cardinality({c \in walled : c.x = i + 1})]

ColumnProjectionOf(walled) ==
    [i \in 0..(RAW_SIDE_LENGTH - 1) |-> Cardinality({c \in walled : c.y = i + 1})]

ZeroProjection == [i \in 0..(RAW_SIDE_LENGTH - 1) |-> 0]

\* The row (1..8) and the column (1..8) whose target an input may raise by
\* one beyond the walls asked for; 0 raises none.
BumpChoices == { << 0, 0 >>, << 7, 0 >>, << 0, 6 >> }

Bumped(projection, line) ==
    [i \in 0..(RAW_SIDE_LENGTH - 1) |->
        IF i + 1 = line THEN projection[i] + 1 ELSE projection[i]]

\* The inputs drawn from BaseMap: some openable tiles made Empty, walls
\* asked for on some of them, and possibly one raised target.
FamilyInputs ==
    UNION { { [raw |-> RawDiagram(opened),
               row |-> Bumped(RowProjectionOf(walled), bump[1]),
               column |-> Bumped(ColumnProjectionOf(walled), bump[2])] :
                 walled \in SUBSET opened, bump \in BumpChoices } :
            opened \in {o \in SUBSET Openable : Cardinality(o) <= MaxRemoved} }

\* The map that agrees with map except for type t on the tiles of coords.
WithTiles(map, coords, t) ==
    [x \in Interior |-> [y \in Interior |->
        IF Coord(x, y) \in coords THEN t ELSE map[x][y]]]

AllOf(t) == [x \in Interior |-> [y \in Interior |-> t]]

\* A treasure room in the top-left corner with its opening at (2,4), and
\* nothing else but walls.
RoomOnlyMap ==
    WithTiles(WithTiles(AllOf(WALL),
                        {Coord(x, y) : x \in 1..3, y \in 1..4} \ {Coord(1, 4), Coord(3, 4)},
                        EMPTY_SPACE),
              {Coord(2, 2)}, TREASURE)

\* A treasure room in the bottom-right corner, against the border, with the
\* treasure on its last row, openings at (5,7) and (7,5), and a monster
\* behind the second opening.
CornerRoomMap ==
    WithTiles(WithTiles(WithTiles(AllOf(WALL),
                                  {Coord(x, y) : x \in 6..8, y \in 6..8}
                                      \cup {Coord(5, 7), Coord(7, 5)},
                                  EMPTY_SPACE),
                        {Coord(8, 7)}, TREASURE),
              {Coord(7, 4)}, MONSTER)

\* Two 3x3 Empty blocks that share their corner tile (3,3), which holds a
\* treasure, and nothing else but walls.
BowtieMap ==
    WithTiles(WithTiles(AllOf(WALL),
                        {Coord(x, y) : x \in 1..3, y \in 1..3}
                            \cup {Coord(x, y) : x \in 3..5, y \in 3..5},
                        EMPTY_SPACE),
              {Coord(3, 3)}, TREASURE)

\* Single inputs outside the family:
\*  an all-Empty map with all-zero projections;
\*  a lone monster walled in on all four sides, with one wall asked for;
\*  the lone room, with a wall asked for on its opening;
\*  the lone room with a monster standing in its opening, and one further
\*  Empty tile on which a wall is asked for;
\*  the lone room with its opening already walled, and one wall asked for;
\*  the lone room with a second opening that leads to a monster, and a wall
\*  asked for on each opening;
\*  two monsters side by side, walled in otherwise, with no wall asked for;
\*  the room in the bottom-right corner, with a wall asked for on its first
\*  opening;
\*  the two blocks around one treasure, with a wall asked for on (3,4).
ScenarioInputs ==
    { [raw |-> AllOf(EMPTY_SPACE), row |-> ZeroProjection, column |-> ZeroProjection],
      [raw |-> WithTiles(AllOf(WALL), {Coord(4, 4)}, MONSTER),
       row |-> RowProjectionOf({Coord(1, 1)}),
       column |-> ColumnProjectionOf({Coord(1, 1)})],
      [raw |-> RoomOnlyMap,
       row |-> RowProjectionOf({Coord(2, 4)}),
       column |-> ColumnProjectionOf({Coord(2, 4)})],
      [raw |-> WithTiles(WithTiles(RoomOnlyMap, {Coord(2, 4)}, MONSTER),
                         {Coord(7, 6)}, EMPTY_SPACE),
       row |-> RowProjectionOf({Coord(7, 6)}),
       column |-> ColumnProjectionOf({Coord(7, 6)})],
      [raw |-> WithTiles(RoomOnlyMap, {Coord(2, 4)}, WALL),
       row |-> RowProjectionOf({Coord(2, 4)}),
       column |-> ColumnProjectionOf({Coord(2, 4)})],
      [raw |-> WithTiles(WithTiles(RoomOnlyMap, {Coord(4, 2)}, EMPTY_SPACE),
                         {Coord(5, 2)}, MONSTER),
       row |-> RowProjectionOf({Coord(2, 4), Coord(4, 2)}),
       column |-> ColumnProjectionOf({Coord(2, 4), Coord(4, 2)})],
      [raw |-> WithTiles(AllOf(WALL), {Coord(4, 4), Coord(4, 5)}, MONSTER),
       row |-> ZeroProjection, column |-> ZeroProjection],
      [raw |-> CornerRoomMap,
       row |-> RowProjectionOf({Coord(5, 7)}),
       column |-> ColumnProjectionOf({Coord(5, 7)})],
      [raw |-> BowtieMap,
       row |-> RowProjectionOf({Coord(3, 4)}),
       column |-> ColumnProjectionOf({Coord(3, 4)})] }

Inputs == FamilyInputs \cup ScenarioInputs

\* ------------------------------------------------------------------------
\* Search state
\* ------------------------------------------------------------------------
VARIABLES diagram, cur_row_projection, cur_column_projection,
          handled_treasure_ids, handled_monster_ids, treasure_room_lt_coords,
          row_projection, column_projection, treasure_coords, monster_coords,
          input_diagram, stack, ret, comb, build, ts_ret

search == << diagram, cur_row_projection, cur_column_projection,
             handled_treasure_ids, handled_monster_ids, treasure_room_lt_coords >>

input == << row_projection, column_projection, treasure_coords, monster_coords,
            input_diagram >>

\* Which build of the search is running, "ts" for dfs of src/ts/main.ts and
\* "js" for dfs_ of the shipped src/js/main.js, and what the "ts" run
\* returned and left in the grid once the "js" run is under way.
builds == << build, ts_ret >>

vars == << search, input, stack, ret, comb, builds >>

\* The mutable search state as one value.
SnapOf(d, cr, cc, ht, hm, rooms) ==
    [diagram |-> d, cur_row |-> cr, cur_column |-> cc,
     handled_treasure |-> ht, handled_monster |-> hm, rooms |-> rooms]

Snap == SnapOf(diagram, cur_row_projection, cur_column_projection,
               handled_treasure_ids, handled_monster_ids, treasure_room_lt_coords)

\* The activation record of a dfs call: the position in the call (pc), its
\* locals, and what the call has done so far: the search state when it was
\* entered (entry), the state before the placements of the current candidate
\* (pre), whether it has placed a wall yet (moved), and how its last
\* candidate ended (last: "pruned" without a recursive call, "failed" after
\* one that returned false).
NewFrame(entry) ==
    [pc |-> "Enter", t |-> 0, r |-> 0, i |-> 0, m |-> 0,
     row_i |-> 0, column_i |-> 0, c |-> 0, difference |-> 0,
     is_satisfied |-> FALSE, lt_coord |-> Coord(0, 0),
     empty_space_coords |-> << >>, placed_indices |-> << >>,
     available_coords |-> << >>, combinations |-> << >>,
     entry |-> entry, pre |-> entry, moved |-> FALSE, last |-> "none"]

\* A call of getCombinations: its arguments, and its result once it has run.
CombinationCall(m, n) == [m |-> m, n |-> n, result |-> << >>, done |-> FALSE]

NoCombination == CombinationCall(0, 0)

Top == stack[Len(stack)]

Goto(f) == stack' = [stack EXCEPT ![Len(stack)] = f] /\ ret' = << >>

Call(f, entry) ==
    /\ stack' = Append([stack EXCEPT ![Len(stack)] = f], NewFrame(entry))
    /\ ret' = << >>

Return(v) ==
    /\ stack' = SubSeq(stack, 1, Len(stack) - 1)
    /\ ret' = << [val |-> v, entry |-> Top.entry, moved |-> Top.moved] >>

Running(pc) == Len(stack) > 0 /\ Top.pc = pc /\ ret = << >>

Returned(pc) == Len(stack) > 0 /\ Top.pc = pc /\ ret # << >>

includes(ids, id) == \E k \in 1..Len(ids) : ids[k] = id

pop(seq) == SubSeq(seq, 1, Len(seq) - 1)

\* Lines 956-966: the padded grid, the coordinate lists, zeroed counters and
\* empty lists, and the top-level dfs call.
Init ==
    \E inp \in Inputs :
        /\ diagram = augmentRawDiagram(inp.raw)
        /\ input_diagram = diagram
        /\ row_projection = inp.row
        /\ column_projection = inp.column
        /\ treasure_coords = getTreasureAndMonsterCoords(diagram)[1]
        /\ monster_coords = getTreasureAndMonsterCoords(diagram)[2]
        /\ cur_row_projection = ZeroProjection
        /\ cur_column_projection = ZeroProjection
        /\ handled_treasure_ids = << >>
        /\ handled_monster_ids = << >>
        /\ treasure_room_lt_coords = << >>
        /\ stack = << NewFrame(SnapOf(diagram, ZeroProjection, ZeroProjection,
                                      << >>, << >>, << >>)) >>
        /\ ret = << >>
        /\ comb = NoCombination
        /\ build = "ts"
        /\ ts_ret = << >>

\* ------------------------------------------------------------------------
\* Placement loops shared by the treasure and monster phases
\* ------------------------------------------------------------------------
\* Lines 678-693 / 770-785: wall every listed tile but the i-th, stopping at
\* the first tile the projections do not admit.
RECURSIVE placeAllButOne_All(_, _, _, _)
placeAllButOne_All(j, i, coords, st) ==
    IF j > Len(coords) THEN st
    ELSE LET row_i == coords[j].x - 1
             column_i == coords[j].y - 1
         IN  IF ~isTilePlacable(row_i, column_i, st.cur_row, st.cur_column,
                                row_projection, column_projection)
             THEN st
             ELSE placeAllButOne_All(j + 1, i, coords,
                    [diagram |-> [st.diagram EXCEPT ![coords[j].x][coords[j].y] = WALL],
                     cur_row |-> [st.cur_row EXCEPT ![row_i] = @ + 1],
                     cur_column |-> [st.cur_column EXCEPT ![column_i] = @ + 1],
                     placed |-> Append(st.placed, j)])

RECURSIVE placeAllButOne(_, _, _, _)
placeAllButOne(j, i, coords, st) ==
    IF j > Len(coords) THEN st
    ELSE IF j = i THEN placeAllButOne(j + 1, i, coords, st)
    ELSE LET row_i == coords[j].x - 1
             column_i == coords[j].y - 1
         IN  IF ~isTilePlacable(row_i, column_i, st.cur_row, st.cur_column,
                                row_projection, column_projection)
             THEN st
             ELSE placeAllButOne(j + 1, i, coords,
                    [diagram |-> [st.diagram EXCEPT ![coords[j].x][coords[j].y] = WALL],
                     cur_row |-> [st.cur_row EXCEPT ![row_i] = @ + 1],
                     cur_column |-> [st.cur_column EXCEPT ![column_i] = @ + 1],
                     placed |-> Append(st.placed, j)])

RECURSIVE undoPlaced_KeepColumn(_, _, _)
undoPlaced_KeepColumn(k, coords, st) ==
    IF k > Len(coords) THEN st
    ELSE undoPlaced_KeepColumn(k + 1, coords,
            [diagram |-> [st.diagram EXCEPT ![coords[k].x][coords[k].y] = EMPTY_SPACE],
             cur_row |-> [st.cur_row EXCEPT ![coords[k].x - 1] = @ - 1],
             cur_column |-> st.cur_column,
             placed |-> st.placed])

\* Lines 713-722 / 803-812 / 894-901: turn the listed tiles back to Empty and
\* decrement their counters.
RECURSIVE undoPlaced(_, _, _)
undoPlaced(k, coords, st) ==
    IF k > Len(coords) THEN st
    ELSE undoPlaced(k + 1, coords,
            [diagram |-> [st.diagram EXCEPT ![coords[k].x][coords[k].y] = EMPTY_SPACE],
             cur_row |-> [st.cur_row EXCEPT ![coords[k].x - 1] = @ - 1],
             cur_column |-> [st.cur_column EXCEPT ![coords[k].y - 1] = @ - 1],
             placed |-> st.placed])

\* Lines 872-879: wall every listed tile, with no projection test.
RECURSIVE placeAll(_, _, _)
placeAll(k, coords, st) ==
    IF k > Len(coords) THEN st
    ELSE placeAll(k + 1, coords,
            [diagram |-> [st.diagram EXCEPT ![coords[k].x][coords[k].y] = WALL],
             cur_row |-> [st.cur_row EXCEPT ![coords[k].x - 1] = @ + 1],
             cur_column |-> [st.cur_column EXCEPT ![coords[k].y - 1] = @ + 1],
             placed |-> st.placed])

Current == [diagram |-> diagram, cur_row |-> cur_row_projection,
            cur_column |-> cur_column_projection, placed |-> << >>]

Selected_ByPosition(coords, indices) == [k \in 1..Len(indices) |-> coords[k]]

\* The coordinates a list of (1-based) indices selects:
\* empty_space_coords[placed_indices[k]] of lines 713-722.
Selected(coords, indices) == [k \in 1..Len(indices) |-> coords[indices[k]]]

SetGrid(st) ==
    /\ diagram' = st.diagram
    /\ cur_row_projection' = st.cur_row
    /\ cur_column_projection' = st.cur_column

\* The grid after isSolved has run on it, were its flood fill to mark the
\* tiles it visits in the grid itself.
isSolvedGrid_Marks(t_coords, m_coords, d) ==
    [x \in 0..(SIDE_LENGTH - 1) |-> [y \in 0..(SIDE_LENGTH - 1) |->
        IF d[x][y] = EMPTY_SPACE THEN WALL ELSE d[x][y]]]

\* The grid after isSolved has run on it (lines 527-597): its checks keep
\* their visited tiles in sets of their own and never assign to the grid.
isSolvedGrid(t_coords, m_coords, d) == d

\* ------------------------------------------------------------------------
\* dfs (lines 628-910), one action per position of a call
\* ------------------------------------------------------------------------
Keep == UNCHANGED << search, input, comb, builds >>

KeepLists ==
    UNCHANGED << handled_treasure_ids, handled_monster_ids,
                 treasure_room_lt_coords, input, comb, builds >>

TreasureAt(f) == treasure_coords[f.t]

MonsterAt(f) == monster_coords[f.m]

GoesOn_Both(is_satisfied) == is_satisfied

\* What a call does when the candidates of one treasure, monster or row are
\* used up.  dfs of src/ts/main.ts returns false unless one of them passed
\* its checks and was recursed on, and else goes on to the next treasure,
\* monster or row (lines 727-729, 816-818, 904-906); dfs_ of src/js/main.js
\* returns false in either case (lines 577, 637, 697).
GoesOn(is_satisfied) == build = "ts" /\ is_satisfied

isPhaseDone_Always(handled_ids, coords) == TRUE

\* Lines 732-734 and 821-823: the gate after the treasure loop and after the
\* monster loop: every item of the phase is handled.
isPhaseDone(handled_ids, coords) == Len(handled_ids) = Len(coords)

\* Lines 635-637: the acceptance test on entry.
Enter ==
    /\ Running("Enter")
    /\ IF isSatisfiedProjections(cur_row_projection, cur_column_projection,
                                 row_projection, column_projection)
       THEN /\ Return(isSolved(treasure_coords, monster_coords, diagram))
            /\ diagram' = isSolvedGrid(treasure_coords, monster_coords, diagram)
       ELSE /\ Goto([Top EXCEPT !.pc = "TNext", !.t = 1])
            /\ UNCHANGED diagram
    /\ UNCHANGED << cur_row_projection, cur_column_projection >>
    /\ KeepLists

\* Lines 640-650 and 732-734: the head of the treasure loop and the gate
\* after it.
TNext ==
    /\ Running("TNext")
    /\ IF Top.t > Len(treasure_coords)
       THEN IF ~isPhaseDone(handled_treasure_ids, treasure_coords)
            THEN Return(FALSE)
            ELSE Goto([Top EXCEPT !.pc = "MNext", !.m = 1])
       ELSE LET x == TreasureAt(Top).x
                y == TreasureAt(Top).y
            IN  IF ~(diagram[x][y] = TREASURE /\
                     ~includes(handled_treasure_ids, getHashId(x, y)))
                THEN Goto([Top EXCEPT !.t = @ + 1])
                ELSE Goto([Top EXCEPT !.pc = "TRoom", !.r = 1,
                                      !.is_satisfied = FALSE])
    /\ Keep

\* Lines 653-673 and 727-729: one candidate top-left of the room loop.
TRoom ==
    /\ Running("TRoom")
    /\ IF Top.r > 9
       THEN IF ~GoesOn(Top.is_satisfied)
            THEN Return(FALSE)
            ELSE Goto([Top EXCEPT !.pc = "TNext", !.t = @ + 1])
       ELSE LET lt_coord == getTRoomLTCoords(TreasureAt(Top).x, TreasureAt(Top).y)[Top.r]
                outer_tile_coords == getTRoomOuterTileCoords(lt_coord.x, lt_coord.y)
                isEmpty(tile) == diagram[tile.x][tile.y] = EMPTY_SPACE
                empty_space_coords == SelectSeq(outer_tile_coords, isEmpty)
            IN  IF ~isTRoomLTCoordAvailable(lt_coord.x, lt_coord.y)
                THEN Goto([Top EXCEPT !.r = @ + 1])
                ELSE IF ~isTRoomTilesAvailable(lt_coord.x, lt_coord.y, diagram)
                THEN Goto([Top EXCEPT !.r = @ + 1])
                ELSE IF \E k \in 1..Len(outer_tile_coords) :
                           /\ diagram[outer_tile_coords[k].x][outer_tile_coords[k].y] # WALL
                           /\ diagram[outer_tile_coords[k].x][outer_tile_coords[k].y] # EMPTY_SPACE
                THEN Goto([Top EXCEPT !.r = @ + 1])
                ELSE IF Len(empty_space_coords) < 1
                THEN Return(FALSE)
                ELSE Goto([Top EXCEPT !.pc = "TTry", !.i = 1,
                                      !.lt_coord = lt_coord,
                                      !.empty_space_coords = empty_space_coords])
    /\ Keep

\* Lines 675-693: the placements of one choice i of the tile left open.
TTry ==
    /\ Running("TTry")
    /\ IF Top.i > Len(Top.empty_space_coords)
       THEN Goto([Top EXCEPT !.pc = "TRoom", !.r = @ + 1]) /\ Keep
       ELSE LET st == placeAllButOne(1, Top.i, Top.empty_space_coords, Current)
            IN  /\ SetGrid(st)
                /\ Goto([Top EXCEPT !.pc = "TPlaced", !.pre = Snap,
                                    !.placed_indices = st.placed,
                                    !.moved = @ \/ st.placed # << >>,
                                    !.last = "none"])
                /\ KeepLists

\* Lines 695-705 and 713-722: recurse when all but one tile were placed and
\* the fixed tiles stay connected, else undo the placements.
TPlaced ==
    /\ Running("TPlaced")
    /\ IF /\ Len(Top.placed_indices) = Len(Top.empty_space_coords) - 1
          /\ checkTreasuresAndMonstersConnectivity(treasure_coords, monster_coords, diagram)
       THEN LET hash_id == getHashId(TreasureAt(Top).x, TreasureAt(Top).y)
                ht == Append(handled_treasure_ids, hash_id)
                rooms == Append(treasure_room_lt_coords, Top.lt_coord)
            IN  /\ handled_treasure_ids' = ht
                /\ treasure_room_lt_coords' = rooms
                /\ Call([Top EXCEPT !.pc = "TCall", !.is_satisfied = TRUE],
                        SnapOf(diagram, cur_row_projection, cur_column_projection,
                               ht, handled_monster_ids, rooms))
                /\ UNCHANGED << diagram, cur_row_projection, cur_column_projection,
                                handled_monster_ids, input, comb, builds >>
       ELSE /\ SetGrid(undoPlaced(1, Selected(Top.empty_space_coords, Top.placed_indices),
                                  Current))
            /\ Goto([Top EXCEPT !.pc = "TTry", !.i = @ + 1, !.last = "pruned"])
            /\ KeepLists

\* Lines 701-722: the recursive call has returned.
TCall ==
    /\ Returned("TCall")
    /\ IF ret[1].val
       THEN Return(TRUE) /\ Keep
       ELSE /\ handled_treasure_ids' = pop(handled_treasure_ids)
            /\ treasure_room_lt_coords' = pop(treasure_room_lt_coords)
            /\ SetGrid(undoPlaced(1, Selected(Top.empty_space_coords, Top.placed_indices),
                                  Current))
            /\ Goto([Top EXCEPT !.pc = "TTry", !.i = @ + 1, !.last = "failed"])
            /\ UNCHANGED << handled_monster_ids, input, comb, builds >>

isEnclosed_FiveWalls(number_of_walls) == number_of_walls > 4

\* Line 764: the monster has a wall on every side.
isEnclosed(number_of_walls) == number_of_walls >= 4

\* Lines 737-766 and 821-823: the head of the monster loop, the gate after
\* it and the neighbour switch.
MNext ==
    /\ Running("MNext")
    /\ IF Top.m > Len(monster_coords)
       THEN IF ~isPhaseDone(handled_monster_ids, monster_coords)
            THEN Return(FALSE)
            ELSE Goto([Top EXCEPT !.pc = "DRow", !.row_i = 0])
       ELSE LET x == MonsterAt(Top).x
                y == MonsterAt(Top).y
                outer_tile_coords == get4DirectionCoords(x, y)
                isEmpty(tile) == diagram[tile.x][tile.y] = EMPTY_SPACE
                empty_space_coords == SelectSeq(outer_tile_coords, isEmpty)
                number_of_walls == CountTiles(outer_tile_coords, diagram, WALL)
            IN  IF ~(diagram[x][y] = MONSTER /\
                     ~includes(handled_monster_ids, getHashId(x, y)))
                THEN Goto([Top EXCEPT !.m = @ + 1])
                ELSE IF \E k \in 1..Len(outer_tile_coords) :
                           diagram[outer_tile_coords[k].x][outer_tile_coords[k].y]
                               \notin {EMPTY_SPACE, WALL}
                THEN Return(FALSE)
                ELSE IF isEnclosed(number_of_walls)
                THEN Return(FALSE)
                ELSE Goto([Top EXCEPT !.pc = "MTry", !.i = 1,
                                      !.is_satisfied = FALSE,
                                      !.empty_space_coords = empty_space_coords])
    /\ Keep

\* Lines 767-785 and 816-818.
MTry ==
    /\ Running("MTry")
    /\ IF Top.i > Len(Top.empty_space_coords)
       THEN /\ IF ~GoesOn(Top.is_satisfied)
               THEN Return(FALSE)
               ELSE Goto([Top EXCEPT !.pc = "MNext", !.m = @ + 1])
            /\ Keep
       ELSE LET st == placeAllButOne(1, Top.i, Top.empty_space_coords, Current)
            IN  /\ SetGrid(st)
                /\ Goto([Top EXCEPT !.pc = "MPlaced", !.pre = Snap,
                                    !.placed_indices = st.placed,
                                    !.moved = @ \/ st.placed # << >>,
                                    !.last = "none"])
                /\ KeepLists

\* Lines 787-796 and 803-812.
MPlaced ==
    /\ Running("MPlaced")
    /\ IF /\ Len(Top.placed_indices) = Len(Top.empty_space_coords) - 1
          /\ checkTreasuresAndMonstersConnectivity(treasure_coords, monster_coords, diagram)
       THEN LET hash_id == getHashId(MonsterAt(Top).x, MonsterAt(Top).y)
                hm == Append(handled_monster_ids, hash_id)
            IN  /\ handled_monster_ids' = hm
                /\ Call([Top EXCEPT !.pc = "MCall", !.is_satisfied = TRUE],
                        SnapOf(diagram, cur_row_projection, cur_column_projection,
                               handled_treasure_ids, hm, treasure_room_lt_coords))
                /\ UNCHANGED << diagram, cur_row_projection, cur_column_projection,
                                handled_treasure_ids, treasure_room_lt_coords, input, comb, builds >>
       ELSE /\ SetGrid(undoPlaced(1, Selected(Top.empty_space_coords, Top.placed_indices),
                                  Current))
            /\ Goto([Top EXCEPT !.pc = "MTry", !.i = @ + 1, !.last = "pruned"])
            /\ KeepLists

\* Lines 792-812: the recursive call has returned.
MCall ==
    /\ Returned("MCall")
    /\ IF ret[1].val
       THEN Return(TRUE) /\ Keep
       ELSE /\ handled_monster_ids' = pop(handled_monster_ids)
            /\ SetGrid(undoPlaced(1, Selected(Top.empty_space_coords, Top.placed_indices),
                                  Current))
            /\ Goto([Top EXCEPT !.pc = "MTry", !.i = @ + 1, !.last = "failed"])
            /\ UNCHANGED << handled_treasure_ids, treasure_room_lt_coords, input, comb, builds >>

\* The pre-check of lines 854-856 and 881-883.  checkTreasureRooms returns
\* a pair, and the pair itself is the operand of &&.
deficitCheck(d) ==
    /\ ArrayToBoolean(checkTreasureRooms(treasure_coords, d))
    /\ checkMonsters(monster_coords, d)
    /\ checkTreasuresAndMonstersConnectivity(treasure_coords, monster_coords, d)

\* Lines 843-846: the tile of row row_i and column column_i may be probed.
isCandidateTile_AnyType(row_i, column_i) ==
    /\ ~isContainedByTRoom(row_i + 1, column_i + 1, treasure_room_lt_coords)
    /\ isTilePlacable(row_i, column_i, cur_row_projection, cur_column_projection,
                      row_projection, column_projection)

isCandidateTile(row_i, column_i) ==
    /\ diagram[row_i + 1][column_i + 1] = EMPTY_SPACE
    /\ ~isContainedByTRoom(row_i + 1, column_i + 1, treasure_room_lt_coords)
    /\ isTilePlacable(row_i, column_i, cur_row_projection, cur_column_projection,
                      row_projection, column_projection)

isRowFull_Negative(difference) == difference < 0

\* Lines 829-831: a row that lacks no wall is passed over.
isRowFull(difference) == difference <= 0

\* Lines 826-833 and 909: the head of the row loop.
DRow ==
    /\ Running("DRow")
    /\ IF Top.row_i >= RAW_SIDE_LENGTH
       THEN Return(FALSE)
       ELSE LET difference == row_projection[Top.row_i] - cur_row_projection[Top.row_i]
            IN  IF isRowFull(difference)
                THEN Goto([Top EXCEPT !.row_i = @ + 1])
                ELSE Goto([Top EXCEPT !.pc = "DCol", !.column_i = 0,
                                      !.difference = difference,
                                      !.available_coords = << >>])
    /\ Keep

\* Lines 835-852 and 865-871: one column of the candidate scan (the probe
\* wall is placed here), and after the last column the candidate count test
\* and the combinations.
DCol ==
    /\ Running("DCol")
    /\ IF Top.column_i >= RAW_SIDE_LENGTH
       THEN /\ IF Len(Top.available_coords) < Top.difference
               THEN Return(FALSE)
               ELSE Goto([Top EXCEPT !.pc = "DTry", !.c = 1,
                                     !.is_satisfied = FALSE,
                                     !.combinations =
                                        getCombinations(Top.difference,
                                                        Len(Top.available_coords))])
            /\ Keep
       ELSE LET x == Top.row_i + 1
                y == Top.column_i + 1
            IN  IF cur_column_projection[Top.column_i] >= column_projection[Top.column_i]
                THEN Goto([Top EXCEPT !.column_i = @ + 1]) /\ Keep
                ELSE IF ~isCandidateTile(Top.row_i, Top.column_i)
                THEN Goto([Top EXCEPT !.column_i = @ + 1]) /\ Keep
                ELSE /\ SetGrid(placeAll(1, << Coord(x, y) >>, Current))
                     /\ Goto([Top EXCEPT !.pc = "DProbe", !.pre = Snap,
                                         !.moved = TRUE])
                     /\ KeepLists

\* Lines 854-862: test the probed grid, record the candidate, take the probe
\* wall back.
DProbe ==
    /\ Running("DProbe")
    /\ LET x == Top.row_i + 1
           y == Top.column_i + 1
       IN  /\ SetGrid(undoPlaced(1, << Coord(x, y) >>, Current))
           /\ Goto([Top EXCEPT !.pc = "DCol", !.column_i = @ + 1,
                               !.available_coords =
                                  IF deficitCheck(diagram)
                                  THEN Append(@, Coord(x, y)) ELSE @])
    /\ KeepLists

\* The candidates (0-based indices) a combination selects.
Chosen(f) ==
    [k \in 1..Len(f.combinations[f.c]) |->
        f.available_coords[f.combinations[f.c][k] + 1]]

\* Lines 871-879 and 904-906: commit the next combination.
DTry ==
    /\ Running("DTry")
    /\ IF Top.c > Len(Top.combinations)
       THEN /\ IF ~GoesOn(Top.is_satisfied)
               THEN Return(FALSE)
               ELSE Goto([Top EXCEPT !.pc = "DRow", !.row_i = @ + 1])
            /\ Keep
       ELSE /\ SetGrid(placeAll(1, Chosen(Top), Current))
            /\ Goto([Top EXCEPT !.pc = "DPlaced", !.pre = Snap,
                                !.moved = TRUE, !.last = "none"])
            /\ KeepLists

\* Lines 881-889 and 894-901.
DPlaced ==
    /\ Running("DPlaced")
    /\ IF deficitCheck(diagram)
       THEN /\ Call([Top EXCEPT !.pc = "DCall", !.is_satisfied = TRUE], Snap)
            /\ Keep
       ELSE /\ SetGrid(undoPlaced(1, Chosen(Top), Current))
            /\ Goto([Top EXCEPT !.pc = "DTry", !.c = @ + 1, !.last = "pruned"])
            /\ KeepLists

\* Lines 885-901: the recursive call has returned.
DCall ==
    /\ Returned("DCall")
    /\ IF ret[1].val
       THEN Return(TRUE) /\ Keep
       ELSE /\ SetGrid(undoPlaced(1, Chosen(Top), Current))
            /\ Goto([Top EXCEPT !.pc = "DTry", !.c = @ + 1, !.last = "failed"])
            /\ KeepLists

Next ==
    \/ Enter
    \/ TNext \/ TRoom \/ TTry \/ TPlaced \/ TCall
    \/ MNext \/ MTry \/ MPlaced \/ MCall
    \/ DRow \/ DCol \/ DProbe \/ DTry \/ DPlaced \/ DCall

Spec == Init /\ [][Next]_vars

\* dfs is one synchronous call (line 966): once started, it runs each of its
\* steps until the top-level call returns.  A step of Next is possible
\* exactly while a call is on the stack, so this is weak fairness of Next
\* with its enabling condition written out.
FairSpec == Spec /\ ([]<>(stack = << >>) \/ []<><< Next >>_vars)

\* ------------------------------------------------------------------------
\* The shipped build run on the same input
\* ------------------------------------------------------------------------
\* src/js/main.js, dfs (lines 511, 701-703, 746): the search of the shipped build
\* starts from the parsed input with zeroed counters and empty lists.  It is
\* started here once the search of src/ts/main.ts has returned, whose
\* result and final grid are kept for comparison.
RunShipped ==
    /\ build = "ts"
    /\ stack = << >> /\ ret # << >>
    /\ build' = "js"
    /\ ts_ret' = << [val |-> ret[1].val, diagram |-> diagram] >>
    /\ diagram' = input_diagram
    /\ cur_row_projection' = ZeroProjection
    /\ cur_column_projection' = ZeroProjection
    /\ handled_treasure_ids' = << >>
    /\ handled_monster_ids' = << >>
    /\ treasure_room_lt_coords' = << >>
    /\ stack' = << NewFrame(SnapOf(input_diagram, ZeroProjection, ZeroProjection,
                                   << >>, << >>, << >>)) >>
    /\ ret' = << >>
    /\ UNCHANGED << input, comb >>

BothNext == Next \/ RunShipped

BothSpec == Init /\ [][BothNext]_vars

\* ------------------------------------------------------------------------
\* getCombinations on its own (lines 599-626)
\* ------------------------------------------------------------------------
\* Largest number of items to choose and largest pool size tried.
MaxChoose == 7

MaxPool == 7

\* No search is running; a call getCombinations(m, n) is pending.
CombInit ==
    /\ comb \in {CombinationCall(m, n) : m \in 0..MaxChoose, n \in 0..MaxPool}
    /\ diagram = augmentRawDiagram(BaseMap)
    /\ input_diagram = diagram
    /\ row_projection = ZeroProjection
    /\ column_projection = ZeroProjection
    /\ treasure_coords = << >>
    /\ monster_coords = << >>
    /\ cur_row_projection = ZeroProjection
    /\ cur_column_projection = ZeroProjection
    /\ handled_treasure_ids = << >>
    /\ handled_monster_ids = << >>
    /\ treasure_room_lt_coords = << >>
    /\ stack = << >>
    /\ ret = << >>
    /\ build = "ts"
    /\ ts_ret = << >>

Generate ==
    /\ ~comb.done
    /\ comb' = [comb EXCEPT !.result = getCombinations(comb.m, comb.n),
                            !.done = TRUE]
    /\ UNCHANGED << search, input, stack, ret, builds >>

CombNext == Generate

CombSpec == CombInit /\ [][CombNext]_vars

\* ------------------------------------------------------------------------
\* Observations
\* ------------------------------------------------------------------------
\* The top-level dfs call has returned v.
Finished(v) == stack = << >> /\ ret # << >> /\ ret[1].val = v

TypeOK ==
    /\ \A x \in 0..(SIDE_LENGTH - 1) : \A y \in 0..(SIDE_LENGTH - 1) :
          diagram[x][y] \in {EMPTY_SPACE, TREASURE, MONSTER, WALL}
    /\ Len(ret) <= 1

\* ------------------------------------------------------------------------
\* Notions the claims are stated in, defined on the grid alone
\* ------------------------------------------------------------------------
Cardinal(x, y) == { << x, y - 1 >>, << x + 1, y >>, << x, y + 1 >>, << x - 1, y >> }

WallNeighbours(d, x, y) ==
    Cardinality({n \in Cardinal(x, y) : d[n[1]][n[2]] = WALL})

TilesOf(d, t) == {p \in Interior \X Interior : d[p[1]][p[2]] = t}

WallsInRow(d, x) == Cardinality({y \in Interior : d[x][y] = WALL})

WallsInColumn(d, y) == Cardinality({x \in Interior : d[x][y] = WALL})

\* The tiles reached from the tiles of S through tiles whose type is in
\* types; F holds the tiles of S whose neighbours are still to be looked at.
RECURSIVE ReachFrom(_, _, _, _)
ReachFrom(S, F, d, types) ==
    LET new == {p \in UNION {Cardinal(q[1], q[2]) : q \in F} :
                   p \notin S /\ d[p[1]][p[2]] \in types}
    IN  IF new = {} THEN S ELSE ReachFrom(S \cup new, new, d, types)

\* The Empty tiles reachable from the set S through Empty tiles.
Reach(S, d) == ReachFrom(S, S, d, {EMPTY_SPACE})

EmptyConnected(d) ==
    \/ TilesOf(d, EMPTY_SPACE) = {}
    \/ LET seed == CHOOSE p \in TilesOf(d, EMPTY_SPACE) : TRUE
       IN  Reach({seed}, d) = TilesOf(d, EMPTY_SPACE)

BlockTiles(a, b) == (a..(a + 2)) \X (b..(b + 2))

RingTiles(a, b) ==
    {p \in ((a - 1)..(a + 3)) \X ((b - 1)..(b + 3)) :
        (p[1] \in {a - 1, a + 3}) # (p[2] \in {b - 1, b + 3})}

\* Top-left corners of the 3x3 blocks whose ring lies on the grid.
RoomCorners == 1..(SIDE_LENGTH - 4)

\* The tile (x, y) lies in a 3x3 block of 1 Treasure + 8 Empty whose ring
\* holds exactly walls Wall tiles.
InRoomWith(d, x, y, walls) ==
    \E a \in RoomCorners : \E b \in RoomCorners :
        /\ << x, y >> \in BlockTiles(a, b)
        /\ Cardinality({p \in BlockTiles(a, b) : d[p[1]][p[2]] = TREASURE}) = 1
        /\ Cardinality({p \in BlockTiles(a, b) : d[p[1]][p[2]] = EMPTY_SPACE}) = 8
        /\ Cardinality({p \in RingTiles(a, b) : d[p[1]][p[2]] = WALL}) = walls

InRooms(x, y, rooms) ==
    \E k \in 1..Len(rooms) : << x, y >> \in BlockTiles(rooms[k].x, rooms[k].y)

\* Some 2x2 block of interior tiles is four Empty tiles outside all rooms.
OpenBlock(d, rooms) ==
    \E a \in 1..(RAW_SIDE_LENGTH - 1) : \E b \in 1..(RAW_SIDE_LENGTH - 1) :
        \A p \in {a, a + 1} \X {b, b + 1} :
            d[p[1]][p[2]] = EMPTY_SPACE /\ ~InRooms(p[1], p[2], rooms)

\* ------------------------------------------------------------------------
\* Claims
\* ------------------------------------------------------------------------
\* C1: whenever the top-level dfs returns true, the number of Wall tiles in
\* each interior row and column of the final grid equals its projection.
C1_Projections ==
    Finished(TRUE) =>
        \A r \in Interior :
            /\ WallsInRow(diagram, r) = row_projection[r - 1]
            /\ WallsInColumn(diagram, r) = column_projection[r - 1]

\* C2: whenever the top-level dfs returns true, the Empty tiles of the final
\* grid form one connected component, or there are none.
C2_EmptyConnected == Finished(TRUE) => EmptyConnected(diagram)

\* A search that placed walls has succeeded and Empty tiles remain.
C2_Witness ==
    /\ Finished(TRUE)
    /\ diagram # input_diagram
    /\ Cardinality(TilesOf(diagram, EMPTY_SPACE)) > 1

\* C3: whenever the top-level dfs returns true, every Monster has exactly 3
\* Wall neighbours and no interior Empty tile has exactly 3 Wall neighbours.
C3_DeadEnds ==
    Finished(TRUE) =>
        /\ \A p \in TilesOf(diagram, MONSTER) : WallNeighbours(diagram, p[1], p[2]) = 3
        /\ \A p \in TilesOf(diagram, EMPTY_SPACE) : WallNeighbours(diagram, p[1], p[2]) # 3

\* The search walled a monster in and succeeded.
C3_Witness ==
    /\ Finished(TRUE)
    /\ handled_monster_ids # << >>
    /\ \E p \in TilesOf(diagram, MONSTER) :
          WallNeighbours(input_diagram, p[1], p[2]) < 3

\* C4 as stated: whenever the top-level dfs returns true, every Treasure lies
\* in a 3x3 block of 1 Treasure + 8 Empty whose 12 ring tiles are all Wall.
C4_FullRing ==
    Finished(TRUE) =>
        \A p \in TilesOf(diagram, TREASURE) : InRoomWith(diagram, p[1], p[2], 12)

\* C4 amended: whenever the top-level dfs returns true, and whenever
\* checkTreasureRooms accepts the grid, every Treasure lies in a 3x3 block of
\* 1 Treasure + 8 Empty whose ring holds exactly 11 Wall tiles.
C4_OneOpening ==
    (Finished(TRUE) \/ checkTreasureRooms(treasure_coords, diagram)[1]) =>
        \A p \in TilesOf(diagram, TREASURE) : InRoomWith(diagram, p[1], p[2], 11)

\* The search closed a ring tile of the treasure's room and succeeded.
C4_Witness ==
    /\ Finished(TRUE)
    /\ handled_treasure_ids # << >>
    /\ \E p \in RingTiles(treasure_room_lt_coords[1].x, treasure_room_lt_coords[1].y) :
          diagram[p[1]][p[2]] = WALL /\ input_diagram[p[1]][p[2]] = EMPTY_SPACE

\* C5: on a grid whose treasure rooms validate, checkHallways rejects exactly
\* when some 2x2 block is four Empty tiles outside the validated rooms; and
\* no such block exists when the top-level dfs has returned true.
C5_Hallways ==
    LET tr == checkTreasureRooms(treasure_coords, diagram)
    IN  tr[1] =>
            /\ (~checkHallways(tr[2], diagram)) <=> OpenBlock(diagram, tr[2])
            /\ Finished(TRUE) => ~OpenBlock(diagram, tr[2])

\* The search ended in failure on a grid that only the hallway check rejects.
C5_Witness ==
    LET tr == checkTreasureRooms(treasure_coords, diagram)
    IN  /\ Finished(FALSE)
        /\ checkEmptySpacesConnectivity(diagram)
        /\ tr[1]
        /\ checkMonstersAndDeadEnds(monster_coords, diagram)
        /\ ~checkHallways(tr[2], diagram)

\* C6: whenever a dfs call returns false, the grid, both counter arrays, both
\* handled lists and the room list equal their values at the call's entry.
C6_FalseRestores ==
    (ret # << >> /\ ~ret[1].val) => Snap = ret[1].entry

\* A recursive call that placed walls has returned false to its caller.
C6_Witness ==
    /\ ret # << >> /\ ~ret[1].val /\ ret[1].moved
    /\ Len(stack) >= 1

\* A recursive call has returned and its caller is about to handle it.
CallReturned ==
    /\ Len(stack) > 0
    /\ Top.pc \in {"TCall", "MCall", "DCall"}
    /\ ret # << >>

\* The grid and counters equal the caller's state before its placements.
Reverted(pre, d, cr, cc) ==
    d = pre.diagram /\ cr = pre.cur_row /\ cc = pre.cur_column

\* C7 as stated: after every recursive call returns, true or false, the
\* caller's handling leaves the grid and counters as before its placements.
C7_AlwaysReverts ==
    [][CallReturned =>
          Reverted(Top.pre, diagram', cur_row_projection', cur_column_projection')]_vars

\* C7 amended: after a recursive call returns false, the caller's handling
\* leaves the grid and counters as before its placements.
C7_RevertsOnFalse ==
    [][(CallReturned /\ ~ret[1].val) =>
          Reverted(Top.pre, diagram', cur_row_projection', cur_column_projection')]_vars

\* A caller that had placed walls has handled a false return.
C7_Witness ==
    /\ Len(stack) > 0
    /\ Top.last = "failed"
    /\ Top.pc \in {"TTry", "MTry"} => Top.placed_indices # << >>
    /\ Top.pc \in {"TTry", "MTry", "DTry"}

\* C8: in every search state each counter equals the number of Wall tiles in
\* its interior row or column.
C8_CountersCountWalls ==
    \A i \in 0..(RAW_SIDE_LENGTH - 1) :
        /\ cur_row_projection[i] = WallsInRow(diagram, i + 1)
        /\ cur_column_projection[i] = WallsInColumn(diagram, i + 1)

\* C9: in every search state each counter lies between 0 and its target.
C9_CountersWithinTargets ==
    \A i \in 0..(RAW_SIDE_LENGTH - 1) :
        /\ 0 <= cur_row_projection[i] /\ cur_row_projection[i] <= row_projection[i]
        /\ 0 <= cur_column_projection[i] /\ cur_column_projection[i] <= column_projection[i]

\* The deficit phase has committed a combination of two or more tiles.
C9_Witness ==
    /\ Len(stack) > 0
    /\ Top.pc = "DPlaced"
    /\ Len(Top.combinations[Top.c]) >= 2

\* C10: Treasure, Monster, border and input Wall tiles never change, and a
\* tile that was Empty in the input is Empty or Wall.
C10_FixedTiles ==
    \A x \in 0..(SIDE_LENGTH - 1) : \A y \in 0..(SIDE_LENGTH - 1) :
        /\ (x \notin Interior \/ y \notin Interior) => diagram[x][y] = WALL
        /\ input_diagram[x][y] \in {TREASURE, MONSTER, WALL} =>
              diagram[x][y] = input_diagram[x][y]
        /\ input_diagram[x][y] = EMPTY_SPACE => diagram[x][y] \in {EMPTY_SPACE, WALL}

\* A deficit probe has a wall standing next to a treasure and a monster.
C10_Witness ==
    /\ Len(stack) > 0
    /\ Top.pc = "DProbe"
    /\ diagram # input_diagram
    /\ treasure_coords # << >> /\ monster_coords # << >>

\* The number of m-element subsets of an n-element set.
RECURSIVE Binomial(_, _)
Binomial(n, m) ==
    IF m = 0 THEN 1
    ELSE IF n = 0 THEN 0
    ELSE Binomial(n - 1, m - 1) + Binomial(n - 1, m)

Elements(seq) == {seq[k] : k \in 1..Len(seq)}

StrictlyIncreasing(seq) == \A k \in 1..(Len(seq) - 1) : seq[k] < seq[k + 1]

LexLess(a, b) ==
    \E i \in 1..Len(a) :
        /\ i <= Len(b)
        /\ a[i] < b[i]
        /\ \A j \in 1..(i - 1) : a[j] = b[j]

\* C11: for m <= n getCombinations(m, n) returns exactly C(n,m) results,
\* pairwise distinct, each a strictly increasing sequence of m indices of
\* 0..n-1, and every m-element subset of 0..n-1 appears; for m > n it
\* returns the empty list.
C11_Combinations ==
    comb.done =>
        IF comb.m > comb.n THEN comb.result = << >>
        ELSE /\ Len(comb.result) = Binomial(comb.n, comb.m)
             /\ \A j \in 1..Len(comb.result) : \A k \in 1..Len(comb.result) :
                   j # k => comb.result[j] # comb.result[k]
             /\ \A k \in 1..Len(comb.result) :
                   /\ Len(comb.result[k]) = comb.m
                   /\ StrictlyIncreasing(comb.result[k])
                   /\ Elements(comb.result[k]) \subseteq 0..(comb.n - 1)
             /\ \A S \in SUBSET (0..(comb.n - 1)) :
                   Cardinality(S) = comb.m =>
                       \E k \in 1..Len(comb.result) : Elements(comb.result[k]) = S

\* getCombinations has produced several combinations of two or more indices.
C11_Witness ==
    /\ comb.done
    /\ comb.m >= 2 /\ comb.n > comb.m
    /\ Len(comb.result) > comb.n

\* C12: getCombinations emits its results in lexicographic order: each
\* combination is lexicographically smaller than the one emitted after it.
C12_LexOrder ==
    comb.done =>
        \A k \in 1..(Len(comb.result) - 1) :
            LexLess(comb.result[k], comb.result[k + 1])

\* getCombinations has produced a list in which both the first and a later
\* index vary.
C12_Witness ==
    /\ comb.done
    /\ comb.m >= 2
    /\ Len(comb.result) >= 3
    /\ comb.result[1][1] # comb.result[Len(comb.result)][1]
    /\ comb.result[1][2] # comb.result[2][2]

AllEmptyInput ==
    /\ input_diagram = augmentRawDiagram(AllOf(EMPTY_SPACE))
    /\ row_projection = ZeroProjection
    /\ column_projection = ZeroProjection

\* C14 as stated: on the all-Empty map with all-zero projections the
\* top-level dfs returns true and the interior is all Empty.
C14_AllEmptySolves ==
    (AllEmptyInput /\ stack = << >>) =>
        /\ Finished(TRUE)
        /\ TilesOf(diagram, EMPTY_SPACE) = Interior \X Interior

\* C14 amended: on the all-Empty map with all-zero projections the top-level
\* dfs returns false, and the interior is left all Empty.
C14_AllEmptyRejected ==
    (AllEmptyInput /\ stack = << >>) =>
        /\ Finished(FALSE)
        /\ TilesOf(diagram, EMPTY_SPACE) = Interior \X Interior

\* The top-level call on the all-Empty input has returned, and the grid is
\* one that fails the hallway rule alone.
C14_Witness ==
    /\ AllEmptyInput
    /\ stack = << >> /\ ret # << >>
    /\ isSolved_NoHallways(treasure_coords, monster_coords, diagram)
    /\ OpenBlock(diagram, << >>)

\* The call on top of the stack is at a monster it has not handled, all
\* treasures are handled, the projections are not satisfied, and the monster
\* has a Wall on each of its four sides.
AtEnclosedMonster ==
    /\ Running("MNext")
    /\ Top.m <= Len(monster_coords)
    /\ ~isSatisfiedProjections(cur_row_projection, cur_column_projection,
                               row_projection, column_projection)
    /\ Len(handled_treasure_ids) = Len(treasure_coords)
    /\ diagram[MonsterAt(Top).x][MonsterAt(Top).y] = MONSTER
    /\ ~includes(handled_monster_ids, getHashId(MonsterAt(Top).x, MonsterAt(Top).y))
    /\ \A k \in 1..(Top.m - 1) :
          includes(handled_monster_ids, getHashId(monster_coords[k].x, monster_coords[k].y))
    /\ WallNeighbours(diagram, MonsterAt(Top).x, MonsterAt(Top).y) = 4

\* C15: a dfs call whose first unhandled monster has all four neighbours
\* Wall (projections unsatisfied, every treasure handled) returns false at
\* once, placing no wall and changing no counter and no list.
C15_EnclosedMonsterFails ==
    [][AtEnclosedMonster =>
          /\ stack' = pop(stack)
          /\ ret' # << >> /\ ~ret'[1].val
          /\ UNCHANGED search]_vars

\* A call has returned false on a monster walled in on all four sides,
\* with the grid as it was given.
C15_Witness ==
    /\ Finished(FALSE)
    /\ monster_coords # << >>
    /\ ~ret[1].moved
    /\ WallNeighbours(diagram, monster_coords[1].x, monster_coords[1].y) = 4
    /\ ~isSatisfiedProjections(cur_row_projection, cur_column_projection,
                               row_projection, column_projection)

RECURSIVE SumTo(_, _)
SumTo(projection, i) ==
    IF i < 0 THEN 0 ELSE projection[i] + SumTo(projection, i - 1)

Sum(projection) == SumTo(projection, RAW_SIDE_LENGTH - 1)

\* The row targets and the column targets of the input have different sums.
SumsDiffer == Sum(row_projection) # Sum(column_projection)

\* C16: on an input whose row targets and column targets have different
\* sums the top-level dfs terminates and returns false and never returns
\* true; the two counter sums are equal throughout.
C16_UnequalSumsFail ==
    /\ [](Sum(cur_row_projection) = Sum(cur_column_projection))
    /\ [](SumsDiffer => ~Finished(TRUE))
    /\ (SumsDiffer ~> Finished(FALSE))

\* The search has placed walls on an input with unequal sums and the
\* top-level call has returned false.
C16_Witness ==
    /\ SumsDiffer
    /\ Finished(FALSE)
    /\ ret[1].moved

\* The input-Empty tiles on which a wall can stand without exceeding a
\* target: their row target and their column target are both positive.
WallableTiles ==
    {p \in TilesOf(input_diagram, EMPTY_SPACE) :
        row_projection[p[1] - 1] > 0 /\ column_projection[p[2] - 1] > 0}

\* The input grid with the tiles of W turned into Wall.
Walled(W) ==
    [x \in 0..(SIDE_LENGTH - 1) |-> [y \in 0..(SIDE_LENGTH - 1) |->
        IF << x, y >> \in W THEN WALL ELSE input_diagram[x][y]]]

\* W is a set of input-Empty tiles whose walls meet every target exactly and
\* give a grid that isSolved accepts.
IsSolution(W) ==
    /\ \A i \in 0..(RAW_SIDE_LENGTH - 1) :
          /\ Cardinality({p \in W : p[1] = i + 1}) = row_projection[i]
          /\ Cardinality({p \in W : p[2] = i + 1}) = column_projection[i]
    /\ isSolved(treasure_coords, monster_coords, Walled(W))

SolutionExists == \E W \in SUBSET WallableTiles : IsSolution(W)

\* C17: if some set of input-Empty tiles, turned into Wall, makes the
\* placed-wall counters equal both projections and gives a grid accepted by
\* isSolved, then the top-level dfs returns true.
C17_Complete == (stack = << >> /\ SolutionExists) => Finished(TRUE)

\* C18: in the deficit phase a tile is admitted to the candidate list, and
\* a committed combination is recursed on, only if the grid with those
\* walls placed passes the treasure-room check.
C18_DeficitNeedsRooms ==
    [][/\ (Running("DProbe") /\
           Len(stack'[Len(stack')].available_coords) > Len(Top.available_coords))
              => checkTreasureRooms(treasure_coords, diagram)[1]
       /\ (Running("DPlaced") /\ Len(stack') > Len(stack))
              => checkTreasureRooms(treasure_coords, diagram)[1]]_vars

\* C19: within one dfs call the deficit phase collects candidates and
\* commits combinations only for the first row whose wall count is below
\* its target: while a call works on a row, no earlier row is below target.
C19_FirstDeficitRowOnly ==
    (Len(stack) > 0 /\ Top.pc \in {"DCol", "DProbe", "DTry", "DPlaced", "DCall"}) =>
        \A r \in 0..(Top.row_i - 1) :
            row_projection[r] - cur_row_projection[r] <= 0

\* C20: in every dfs call the monster phase places walls or marks a monster
\* handled only when every treasure is handled, and the deficit phase places
\* walls only when every treasure and every monster is handled.
C20_PhaseOrder ==
    \A k \in 1..Len(stack) :
        /\ stack[k].pc \in {"MTry", "MPlaced", "MCall"} =>
              Len(handled_treasure_ids) = Len(treasure_coords)
        /\ stack[k].pc \in {"DCol", "DProbe", "DTry", "DPlaced", "DCall"} =>
              /\ Len(handled_treasure_ids) = Len(treasure_coords)
              /\ Len(handled_monster_ids) = Len(monster_coords)

\* A call has committed deficit walls on an input with treasures and
\* monsters, below a call of the monster phase and one of the treasure phase.
C20_Witness ==
    /\ Len(stack) >= 3
    /\ Top.pc = "DPlaced"
    /\ treasure_coords # << >> /\ monster_coords # << >>
    /\ \E k \in 1..Len(stack) : stack[k].pc = "MCall"
    /\ \E k \in 1..Len(stack) : stack[k].pc = "TCall"

\* The 3x3 block with top-left corner lt holds 8 Empty tiles and 1 Treasure
\* and its ring holds 11 Wall tiles and one Empty tile, the tile open.
RoomWithOpening(d, lt, open) ==
    /\ Cardinality({p \in BlockTiles(lt.x, lt.y) : d[p[1]][p[2]] = EMPTY_SPACE}) = 8
    /\ Cardinality({p \in BlockTiles(lt.x, lt.y) : d[p[1]][p[2]] = TREASURE}) = 1
    /\ Cardinality({p \in RingTiles(lt.x, lt.y) : d[p[1]][p[2]] = WALL}) = 11
    /\ {p \in RingTiles(lt.x, lt.y) : d[p[1]][p[2]] = EMPTY_SPACE} = { << open.x, open.y >> }

\* The candidate room the call on top of the stack is looking at passes the
\* corner, interior and ring-type tests, and its ring has no Empty tile.
AtSealedRoom ==
    /\ Running("TRoom")
    /\ Top.r <= 9
    /\ LET lt == getTRoomLTCoords(TreasureAt(Top).x, TreasureAt(Top).y)[Top.r]
       IN  /\ lt.x \in RoomCorners /\ lt.y \in RoomCorners
           /\ isTRoomTilesAvailable(lt.x, lt.y, diagram)
           /\ \A p \in RingTiles(lt.x, lt.y) : diagram[p[1]][p[2]] = WALL

\* The frame that is on top of the stack before and after the step.
SameFrame == Len(stack') = Len(stack) /\ Len(stack) > 0

\* C21: when the treasure phase marks a treasure handled and recurses, the
\* recorded room has 8 Empty + 1 Treasure inside and a ring of 11 Wall tiles
\* and one Empty tile; the choices of the ring tile left open are tried one
\* after the other, none skipped, before the room is left; and a candidate
\* room whose ring has no Empty tile makes the call return false.
C21_TreasureRooms ==
    [][/\ (Running("TPlaced") /\ Len(stack') > Len(stack)) =>
              /\ treasure_room_lt_coords' = Append(treasure_room_lt_coords, Top.lt_coord)
              /\ RoomWithOpening(diagram', Top.lt_coord, Top.empty_space_coords[Top.i])
       /\ (Running("TRoom") /\ SameFrame /\ stack'[Len(stack')].pc = "TTry") =>
              /\ stack'[Len(stack')].i = 1
              /\ Len(stack'[Len(stack')].empty_space_coords) >= 1
              /\ \A p \in RingTiles(stack'[Len(stack')].lt_coord.x,
                                    stack'[Len(stack')].lt_coord.y) :
                    diagram[p[1]][p[2]] = EMPTY_SPACE <=>
                        \E k \in 1..Len(stack'[Len(stack')].empty_space_coords) :
                            stack'[Len(stack')].empty_space_coords[k] = Coord(p[1], p[2])
       /\ (Running("TTry") /\ Top.i <= Len(Top.empty_space_coords)) =>
              /\ SameFrame
              /\ stack'[Len(stack')].pc = "TPlaced"
              /\ stack'[Len(stack')].i = Top.i
              /\ ~includes(stack'[Len(stack')].placed_indices, Top.i)
              /\ diagram'[Top.empty_space_coords[Top.i].x][Top.empty_space_coords[Top.i].y]
                     = EMPTY_SPACE
       /\ (Running("TTry") /\ SameFrame /\ stack'[Len(stack')].pc = "TRoom") =>
              Top.i = Len(Top.empty_space_coords) + 1
       /\ (Len(stack) > 0 /\ Top.pc \in {"TPlaced", "TCall"} /\ SameFrame /\
           stack'[Len(stack')].pc = "TTry") =>
              stack'[Len(stack')].i = Top.i + 1
       /\ AtSealedRoom =>
              /\ stack' = pop(stack)
              /\ ret' # << >> /\ ~ret'[1].val]_vars

\* The treasure phase has recursed on the second choice of the ring tile
\* left open, in a room whose ring had several Empty tiles.
C21_Witness ==
    /\ Len(stack) >= 2
    /\ stack[1].pc = "TCall"
    /\ Len(stack[1].empty_space_coords) >= 2
    /\ stack[1].i >= 2
    /\ RoomWithOpening(diagram, stack[1].lt_coord, stack[1].empty_space_coords[stack[1].i])

\* A call has returned false on a room whose ring was all Wall.
C21_SealedWitness ==
    /\ Finished(FALSE)
    /\ treasure_coords # << >>
    /\ ~ret[1].moved
    /\ \E a \in RoomCorners : \E b \in RoomCorners :
          /\ << treasure_coords[1].x, treasure_coords[1].y >> \in BlockTiles(a, b)
          /\ isTRoomTilesAvailable(a, b, diagram)
          /\ \A p \in RingTiles(a, b) : diagram[p[1]][p[2]] = WALL

\* The non-Wall tiles reachable from the set S of non-border tiles through
\* non-Wall tiles.
ReachNonWall(S, d) == ReachFrom(S, S, d, {EMPTY_SPACE, TREASURE, MONSTER})

\* All tiles of the coordinate list lie in one connected component of the
\* non-Wall tiles of d.
FixedConnected(coords, d) ==
    \/ coords = << >>
    \/ LET component == ReachNonWall({ << coords[1].x, coords[1].y >> }, d)
       IN  \A k \in 1..Len(coords) : << coords[k].x, coords[k].y >> \in component

\* C22: every recursive dfs call is entered in a grid in which all treasures
\* and monsters are connected through non-Wall tiles, and a placement after
\* which they are not is undone without a recursive call.
C22_RecurseOnlyConnected ==
    [][/\ Len(stack') > Len(stack) =>
              /\ FixedConnected(treasure_coords \o monster_coords, diagram')
              /\ stack'[Len(stack')].entry.diagram = diagram'
       /\ (Len(stack) > 0 /\ ret = << >> /\
           Top.pc \in {"TPlaced", "MPlaced", "DPlaced"} /\
           ~FixedConnected(treasure_coords \o monster_coords, diagram)) =>
              /\ Len(stack') = Len(stack)
              /\ diagram' = Top.pre.diagram
              /\ cur_row_projection' = Top.pre.cur_row
              /\ cur_column_projection' = Top.pre.cur_column
              /\ UNCHANGED << handled_treasure_ids, handled_monster_ids,
                              treasure_room_lt_coords >>]_vars

\* A call has placed all the walls of a candidate, and they cut a treasure
\* or monster off from the others.
C22_Witness ==
    /\ Len(stack) > 0 /\ ret = << >>
    /\ \/ Top.pc = "DPlaced"
       \/ /\ Top.pc \in {"TPlaced", "MPlaced"}
          /\ Len(Top.placed_indices) = Len(Top.empty_space_coords) - 1
    /\ diagram # Top.pre.diagram
    /\ FixedConnected(treasure_coords \o monster_coords, Top.pre.diagram)
    /\ ~FixedConnected(treasure_coords \o monster_coords, diagram)

\* C23: on every grid of the search, checkEmptySpacesConnectivity returns
\* true exactly when the interior Empty tiles form at most one connected
\* component (true when there is no Empty tile).
C23_EmptyConnectivityExact ==
    [](checkEmptySpacesConnectivity(diagram) <=> EmptyConnected(diagram))

\* The search is in a grid whose Empty tiles fall into several components,
\* reached by placing walls, and the checker rejects it.
C23_Witness ==
    /\ Len(stack) > 0
    /\ EmptyConnected(input_diagram)
    /\ TilesOf(diagram, EMPTY_SPACE) # {}
    /\ ~EmptyConnected(diagram)
    /\ ~checkEmptySpacesConnectivity(diagram)

\* C24: on every grid of the search, partial or final,
\* checkTreasuresAndMonstersConnectivity returns true exactly when all
\* treasures and monsters lie in one connected component of the non-Wall
\* tiles, and a step that consults it and accepts leaves the grid as it was.
C24_FixedConnectivityExact ==
    /\ [](checkTreasuresAndMonstersConnectivity(treasure_coords, monster_coords, diagram)
            <=> FixedConnected(treasure_coords \o monster_coords, diagram))
    /\ [][(Len(stack) > 0 /\ ret = << >> /\
           Top.pc \in {"TPlaced", "MPlaced", "DPlaced"} /\
           Len(stack') > Len(stack)) => diagram' = diagram]_vars

\* The search holds a partial grid with at least two treasures or monsters
\* that earlier wall placements left connected, and walls placed since then
\* separate them: the checker answers false where it answered true.
C24_Witness ==
    /\ Len(stack) > 0 /\ ret = << >>
    /\ Len(treasure_coords \o monster_coords) >= 2
    /\ diagram # input_diagram
    /\ checkTreasuresAndMonstersConnectivity(treasure_coords, monster_coords,
                                             input_diagram)
    /\ ~checkTreasuresAndMonstersConnectivity(treasure_coords, monster_coords, diagram)
    /\ ~FixedConnected(treasure_coords \o monster_coords, diagram)

\* C25: in every grid that isSolved accepts, each monster's one non-Wall
\* cardinal neighbour is an Empty tile, never a Treasure or another Monster.
C25_MonsterOpensOnEmpty ==
    isSolved(treasure_coords, monster_coords, diagram) =>
        \A k \in 1..Len(monster_coords) :
            LET outer_tile_coords ==
                    get4DirectionCoords(monster_coords[k].x, monster_coords[k].y)
            IN  \A j \in 1..Len(outer_tile_coords) :
                    diagram[outer_tile_coords[j].x][outer_tile_coords[j].y]
                        \in {WALL, EMPTY_SPACE}

\* What a search state has achieved: the treasures and monsters marked
\* handled and the walls standing in the grid.
Progress(st) ==
    Len(st.handled_treasure) + Len(st.handled_monster)
        + Cardinality(TilesOf(st.diagram, WALL))

\* No element occurs twice in the list.
NoRepeat(ids) == \A i, j \in 1..Len(ids) : i # j => ids[i] # ids[j]

\* C26: the top-level dfs call terminates with true or false.  Every
\* recursive call is entered with one more treasure or monster handled, or
\* at least one more wall, than the call that makes it was entered with;
\* no item is handled twice and walls stand only on input-Empty tiles, so
\* the depth of the recursion is bounded by the number of treasures,
\* monsters and input-Empty tiles.
C26_Terminates ==
    /\ <>(Finished(TRUE) \/ Finished(FALSE))
    /\ [][Len(stack') > Len(stack) =>
              /\ stack'[Len(stack')].entry = Snap'
              /\ Progress(Snap') > Progress(Top.entry)
              /\ \/ Len(handled_treasure_ids') = Len(handled_treasure_ids) + 1
                 \/ Len(handled_monster_ids') = Len(handled_monster_ids) + 1
                 \/ Cardinality(TilesOf(diagram', WALL)) >
                        Cardinality(TilesOf(Top.entry.diagram, WALL))]_vars
    /\ [](/\ NoRepeat(handled_treasure_ids) /\ NoRepeat(handled_monster_ids)
          /\ Len(handled_treasure_ids) <= Len(treasure_coords)
          /\ Len(handled_monster_ids) <= Len(monster_coords)
          /\ TilesOf(diagram, WALL) \subseteq
                 TilesOf(input_diagram, WALL) \cup TilesOf(input_diagram, EMPTY_SPACE)
          /\ Len(stack) <= 1 + Len(treasure_coords) + Len(monster_coords)
                             + Cardinality(TilesOf(input_diagram, EMPTY_SPACE)))

\* The top-level call has returned after recursive calls that handled a
\* treasure and a monster and placed walls.
C26_Witness ==
    /\ Finished(TRUE)
    /\ ret[1].moved
    /\ handled_treasure_ids # << >>
    /\ handled_monster_ids # << >>
    /\ Cardinality(TilesOf(diagram, WALL)) > Cardinality(TilesOf(input_diagram, WALL))

\* The coordinate lies in the 10x10 padded grid.
InGrid(c) == c.x \in 0..(SIDE_LENGTH - 1) /\ c.y \in 0..(SIDE_LENGTH - 1)

AllInGrid(coords) == \A k \in 1..Len(coords) : InGrid(coords[k])

\* The tiles that the room scans of dfs (653-670) and of checkTreasureRooms
\* (493-505) index around one treasure: the interior of every candidate that
\* passes isTRoomLTCoordAvailable, and the ring of every candidate whose
\* interior passes as well.
RoomScanInGrid(t, d) ==
    \A r \in 1..9 :
        LET lt_coord == getTRoomLTCoords(t.x, t.y)[r]
        IN  isTRoomLTCoordAvailable(lt_coord.x, lt_coord.y) =>
                /\ AllInGrid(getTRoomTileCoords(lt_coord.x, lt_coord.y))
                /\ isTRoomTilesAvailable(lt_coord.x, lt_coord.y, d) =>
                       AllInGrid(getTRoomOuterTileCoords(lt_coord.x, lt_coord.y))

\* C27: at every search state, every grid index that dfs and the validators
\* use lies in 0..9: the interior and the ring of the candidate rooms, the
\* four neighbours of the monsters and of the non-Wall tiles the flood fills
\* and the dead-end scan visit, the corner triples of the hallway scan, and
\* the tiles the call on top of the stack writes.
C27_IndicesInGrid ==
    [](/\ AllInGrid(treasure_coords) /\ AllInGrid(monster_coords)
       /\ \A k \in 1..Len(treasure_coords) : RoomScanInGrid(treasure_coords[k], diagram)
       /\ \A k \in 1..Len(monster_coords) :
             AllInGrid(get4DirectionCoords(monster_coords[k].x, monster_coords[k].y))
       /\ \A x, y \in 0..(SIDE_LENGTH - 1) :
             \/ x \in Interior /\ y \in Interior
             \/ diagram[x][y] = WALL
       /\ \A x, y \in Interior :
             diagram[x][y] # WALL =>
                 /\ AllInGrid(get4DirectionCoords(x, y))
                 /\ \A s \in 1..4 : AllInGrid(get4TilesSpaces(x, y)[s])
       /\ Len(stack) > 0 =>
             /\ AllInGrid(Top.empty_space_coords)
             /\ AllInGrid(Top.available_coords)
             /\ \A k \in 1..Len(Top.empty_space_coords) :
                    Top.empty_space_coords[k].x \in Interior /\
                    Top.empty_space_coords[k].y \in Interior)

\* The room scan of a dfs call is at a candidate in row or column 7, whose
\* interior reaches the border and whose ring would lie beyond it.
C27_Witness ==
    /\ Running("TRoom")
    /\ Top.r <= 9
    /\ LET lt_coord == getTRoomLTCoords(TreasureAt(Top).x, TreasureAt(Top).y)[Top.r]
       IN  /\ isTRoomLTCoordAvailable(lt_coord.x, lt_coord.y)
           /\ lt_coord.x = SIDE_LENGTH - 3 \/ lt_coord.y = SIDE_LENGTH - 3
           /\ ~AllInGrid(getTRoomOuterTileCoords(lt_coord.x, lt_coord.y))

\* The candidate top-left the room scan of the call on top of the stack is at.
CandidateLT == getTRoomLTCoords(TreasureAt(Top).x, TreasureAt(Top).y)[Top.r]

AtCandidate == Running("TRoom") /\ Top.r <= 9

\* All tiles of the 3x3 block with top-left lt have their row and column
\* indices in lo..hi.
BlockWithin(lt, lo, hi) ==
    \A k \in 1..9 :
        /\ getTRoomTileCoords(lt.x, lt.y)[k].x \in lo..hi
        /\ getTRoomTileCoords(lt.x, lt.y)[k].y \in lo..hi

\* C28 as stated: isTRoomLTCoordAvailable holds of a candidate exactly when
\* its 3x3 block lies inside the play area, all indices in 1..8.
C28_BlockInPlayArea ==
    AtCandidate =>
        (isTRoomLTCoordAvailable(CandidateLT.x, CandidateLT.y)
            <=> BlockWithin(CandidateLT, 1, SIDE_LENGTH - 2))

\* C28 amended: isTRoomLTCoordAvailable holds of a candidate exactly when
\* its 3x3 block has all indices in 1..9: the block stays clear of border
\* row and column 0 but may lie on border row or column 9, and such a block
\* fails isTRoomTilesAvailable.
C28_BlockInGridPastZero ==
    AtCandidate =>
        /\ isTRoomLTCoordAvailable(CandidateLT.x, CandidateLT.y)
               <=> BlockWithin(CandidateLT, 1, SIDE_LENGTH - 1)
        /\ (isTRoomLTCoordAvailable(CandidateLT.x, CandidateLT.y) /\
            ~BlockWithin(CandidateLT, 1, SIDE_LENGTH - 2))
               => ~isTRoomTilesAvailable(CandidateLT.x, CandidateLT.y, diagram)

\* The room scan is at a candidate that isTRoomLTCoordAvailable admits and
\* whose block lies on the border.
C28_Witness ==
    /\ AtCandidate
    /\ isTRoomLTCoordAvailable(CandidateLT.x, CandidateLT.y)
    /\ ~BlockWithin(CandidateLT, 1, SIDE_LENGTH - 2)
    /\ \E k \in 1..9 :
          LET tile == getTRoomTileCoords(CandidateLT.x, CandidateLT.y)[k]
          IN  tile.x = SIDE_LENGTH - 1 /\ diagram[tile.x][tile.y] = WALL

\* The candidates (positions 1..9 of getTRoomLTCoords) around the treasure t
\* whose block passes the interior condition in d.
InteriorCandidates(t, d) ==
    {r \in 1..9 :
        LET lt_coord == getTRoomLTCoords(t.x, t.y)[r]
        IN  /\ isTRoomLTCoordAvailable(lt_coord.x, lt_coord.y)
            /\ isTRoomTilesAvailable(lt_coord.x, lt_coord.y, d)}

\* Those of them whose ring passes the perimeter condition as well.
RoomCandidates(t, d) ==
    {r \in InteriorCandidates(t, d) :
        LET lt_coord == getTRoomLTCoords(t.x, t.y)[r]
        IN  isTRoomWallsAvailable(lt_coord.x, lt_coord.y, d)}

\* C29: in every grid of the search and for every treasure, at most one of
\* the 9 candidate top-lefts passes both the interior and the perimeter
\* condition, and when checkTreasureRooms succeeds the room it records for
\* each treasure is that one candidate, whatever the scan order.
C29_OneRoomPerTreasure ==
    /\ \A k \in 1..Len(treasure_coords) :
          Cardinality(RoomCandidates(treasure_coords[k], diagram)) <= 1
    /\ LET result == checkTreasureRooms(treasure_coords, diagram)
       IN  result[1] =>
               /\ Len(result[2]) = Len(treasure_coords)
               /\ \A k \in 1..Len(treasure_coords) :
                      LET t == treasure_coords[k]
                      IN  {getTRoomLTCoords(t.x, t.y)[r] : r \in RoomCandidates(t, diagram)}
                              = {result[2][k]}

\* The search has walled one opening of a treasure whose input grid had two
\* candidate blocks with a passing interior; one candidate now passes both
\* conditions and checkTreasureRooms records it.
C29_Witness ==
    /\ Len(stack) > 0
    /\ diagram # input_diagram
    /\ Len(treasure_coords) = 1
    /\ Cardinality(InteriorCandidates(treasure_coords[1], input_diagram)) >= 2
    /\ RoomCandidates(treasure_coords[1], input_diagram) = {}
    /\ Cardinality(RoomCandidates(treasure_coords[1], diagram)) = 1
    /\ checkTreasureRooms(treasure_coords, diagram)[1]

\* A call has used up the candidates of one treasure, monster or row after
\* recursing on at least one of them.
CandidatesFailed ==
    /\ Len(stack) > 0 /\ ret = << >>
    /\ Top.is_satisfied
    /\ \/ Top.pc = "TRoom" /\ Top.r > 9
       \/ Top.pc = "MTry" /\ Top.i > Len(Top.empty_space_coords)
       \/ Top.pc = "DTry" /\ Top.c > Len(Top.combinations)

====
